---- MODULE Spec2Model ----
(***************************************************************************)
(* Report lifecycle core of medical-reports: the ReportService operations  *)
(* (internal/services/report_service.go) running as concurrent requests    *)
(* over the PostgreSQL tables `reports` and `report_versions`              *)
(* (internal/repository/postgres/report_repository.go, schema in           *)
(* start-dev.sh).  Every SQL statement is one atomic step; the Go code     *)
(* between two statements works on the request's private copy.             *)
(***************************************************************************)
EXTENDS Integers, Sequences, FiniteSets, TLC

(***************************************************************************)
(* Bounds of the model.                                                    *)
(***************************************************************************)
NumProcs == 2      \* concurrent request handlers
MaxReports == 1    \* reports ever created (uuid.New() never repeats an id)
TwoReports == 2    \* the same, where the properties are about two reports
MaxOps == 2        \* requests started after the initial state
MaxClock == 1      \* readings of the wall clock that are told apart; it saturates here
TimedClock == 7    \* the same, where the properties compare timestamps
MaxDay == 2        \* admission and discharge dates are days 0 .. MaxDay

Procs == 1 .. NumProcs
ReportIDs == 1 .. TwoReports
Users == {"doctor-1"}

(***************************************************************************)
(* domain.Status and the transition table.                                 *)
(***************************************************************************)
StatusDraft == "draft"
StatusInReview == "in_review"
StatusApproved == "approved"
StatusSigned == "signed"
StatusCancelled == "cancelled"

Statuses ==
    {StatusDraft, StatusInReview, StatusApproved, StatusSigned, StatusCancelled}

\* Variant of the table in which an approved report cannot be signed.
ValidTransitionsNoSigning ==
    [s \in Statuses |->
        CASE s = StatusDraft -> <<StatusInReview, StatusCancelled>>
          [] s = StatusInReview -> <<StatusDraft, StatusApproved, StatusCancelled>>
          [] s = StatusApproved -> <<StatusDraft>>
          [] s = StatusSigned -> <<>>
          [] s = StatusCancelled -> <<>>]

ValidTransitions ==
    [s \in Statuses |->
        CASE s = StatusDraft -> <<StatusInReview, StatusCancelled>>
          [] s = StatusInReview -> <<StatusDraft, StatusApproved, StatusCancelled>>
          [] s = StatusApproved -> <<StatusSigned, StatusDraft>>
          [] s = StatusSigned -> <<>>
          [] s = StatusCancelled -> <<>>]

\* Variant of CanTransitionTo that takes a request for the current status as a
\* permitted no-op.
CanTransitionToOrStay(status, newStatus) ==
    \/ status = newStatus
    \/ /\ status \in DOMAIN ValidTransitions
       /\ \E i \in 1 .. Len(ValidTransitions[status]) :
            ValidTransitions[status][i] = newStatus

\* Report.CanTransitionTo: look the current status up, then scan its list.
CanTransitionTo(status, newStatus) ==
    IF status \notin DOMAIN ValidTransitions
    THEN FALSE
    ELSE \E i \in 1 .. Len(ValidTransitions[status]) :
            ValidTransitions[status][i] = newStatus

(***************************************************************************)
(* domain errors, and the driver errors the repository passes through.     *)
(***************************************************************************)
ErrReportNotFound == "report not found"
ErrCannotEditNonDraft == "can only edit reports in draft status"
ErrInvalidStatusTransition == "invalid status transition"
ErrIncompleteReport == "report is incomplete"
ErrInvalidCNP == "invalid CNP format"
ErrEmptyField == "required field is empty"
ErrInvalidDate == "invalid date"
ErrInvalidDiagnosis == "invalid diagnosis code"
ErrDatabaseQuery == "database query error"
\* SaveVersion returns the driver's error unchanged (return err).
PqUniqueViolation == "pq: duplicate key value violates unique constraint"
PqForeignKeyViolation == "pq: insert violates foreign key constraint"
DriverBadConnection == "driver: bad connection"
NoError == "nil"

(***************************************************************************)
(* domain.ReportContent: the fields the validators read, and one field of  *)
(* every section that is only captured.  Dates are day numbers; the zero   *)
(* time.Time is day 0.                                                     *)
(***************************************************************************)
ZeroContent ==
    [PatientData |-> [FirstName |-> "", LastName |-> "", CNP |-> "",
                      AdmissionDate |-> 0, DischargeDate |-> 0],
     Anamnesis |-> [ChiefComplaint |-> ""],
     Examination |-> [GeneralCondition |-> ""],
     LabResults |-> [LaboratoryTests |-> <<>>],
     Diagnosis |-> [PrimaryDiagnosis |-> [Code |-> ""]],
     Treatment |-> [Medications |-> <<>>],
     Recommendations |-> [DischargePlan |-> ""]]

\* Variant of PatientDataSection.Validate without the comparison of the dates.
PatientDataValidateNoDates(s) ==
    IF s.FirstName = "" \/ s.LastName = "" THEN ErrEmptyField
    ELSE IF Len(s.CNP) # 13 THEN ErrInvalidCNP
    ELSE NoError

PatientDataValidate(s) ==
    IF s.FirstName = "" \/ s.LastName = "" THEN ErrEmptyField
    ELSE IF Len(s.CNP) # 13 THEN ErrInvalidCNP
    ELSE IF s.DischargeDate < s.AdmissionDate THEN ErrInvalidDate
    ELSE NoError

AnamnesisValidate(s) ==
    IF s.ChiefComplaint = "" THEN ErrEmptyField ELSE NoError

DiagnosisValidate(s) ==
    IF s.PrimaryDiagnosis.Code = "" THEN ErrInvalidDiagnosis ELSE NoError

\* Variant of Validate that returns after the patient-data section.
ValidatePatientDataOnly(c) == PatientDataValidate(c.PatientData)

Validate(c) ==
    IF PatientDataValidate(c.PatientData) # NoError
    THEN PatientDataValidate(c.PatientData)
    ELSE IF AnamnesisValidate(c.Anamnesis) # NoError
    THEN AnamnesisValidate(c.Anamnesis)
    ELSE IF DiagnosisValidate(c.Diagnosis) # NoError
    THEN DiagnosisValidate(c.Diagnosis)
    ELSE NoError

IsComplete(c) == Validate(c) = NoError

\* json.Marshal / json.Unmarshal of a ReportContent: the struct fields are
\* written under their json tags and read back from them.
Marshal(c) ==
    [patient_data |-> [first_name |-> c.PatientData.FirstName,
                       last_name |-> c.PatientData.LastName,
                       cnp |-> c.PatientData.CNP,
                       admission_date |-> c.PatientData.AdmissionDate,
                       discharge_date |-> c.PatientData.DischargeDate],
     anamnesis |-> [chief_complaint |-> c.Anamnesis.ChiefComplaint],
     examination |-> [general_condition |-> c.Examination.GeneralCondition],
     lab_results |-> [laboratory_tests |-> c.LabResults.LaboratoryTests],
     diagnosis |-> [primary_diagnosis |-> [code |-> c.Diagnosis.PrimaryDiagnosis.Code]],
     treatment |-> [medications |-> c.Treatment.Medications],
     recommendations |-> [discharge_plan |-> c.Recommendations.DischargePlan]]

Unmarshal(j) ==
    [PatientData |-> [FirstName |-> j.patient_data.first_name,
                      LastName |-> j.patient_data.last_name,
                      CNP |-> j.patient_data.cnp,
                      AdmissionDate |-> j.patient_data.admission_date,
                      DischargeDate |-> j.patient_data.discharge_date],
     Anamnesis |-> [ChiefComplaint |-> j.anamnesis.chief_complaint],
     Examination |-> [GeneralCondition |-> j.examination.general_condition],
     LabResults |-> [LaboratoryTests |-> j.lab_results.laboratory_tests],
     Diagnosis |-> [PrimaryDiagnosis |-> [Code |-> j.diagnosis.primary_diagnosis.code]],
     Treatment |-> [Medications |-> j.treatment.medications],
     Recommendations |-> [DischargePlan |-> j.recommendations.discharge_plan]]

(***************************************************************************)
(* Request inputs.                                                         *)
(***************************************************************************)
ValidCNP == "1850312400123"
CNPInputs == {"", "185031240012", ValidCNP, "18503124001234"}

\* A saved document whose chief complaint is still empty.
NoComplaintDoc ==
    [ZeroContent EXCEPT
        !.PatientData = [FirstName |-> "Ion", LastName |-> "Pop", CNP |-> ValidCNP,
                         AdmissionDate |-> 1, DischargeDate |-> 2],
        !.Examination = [GeneralCondition |-> "stable"]]

\* The same document with chief complaint and primary diagnosis filled in.
CompleteDoc ==
    [NoComplaintDoc EXCEPT
        !.Anamnesis = [ChiefComplaint |-> "cough"],
        !.Diagnosis = [PrimaryDiagnosis |-> [Code |-> "J18.1"]]]

\* A complete document that differs only in a captured section.
CompleteDoc2 ==
    [CompleteDoc EXCEPT !.Recommendations = [DischargePlan |-> "rest"]]

ContentInputs == {NoComplaintDoc, CompleteDoc, CompleteDoc2}

\* The documents given to IsComplete: every field the validators read takes
\* a value that passes and one that does not, and the sections they do not
\* read are empty or filled in.
Days == 0 .. MaxDay

PatientDataInputs ==
    [FirstName : {"", "Ion"}, LastName : {"", "Pop"}, CNP : CNPInputs,
     AdmissionDate : Days, DischargeDate : Days]

CapturedInputs ==
    [Examination : {[GeneralCondition |-> ""], [GeneralCondition |-> "stable"]},
     LabResults : {[LaboratoryTests |-> <<>>], [LaboratoryTests |-> <<"CBC">>]},
     Treatment : {[Medications |-> <<>>], [Medications |-> <<"amoxicillin">>]},
     Recommendations : {[DischargePlan |-> ""], [DischargePlan |-> "rest"]}]

\* The document with the captured sections replaced.
WithCaptured(c, o) ==
    [c EXCEPT !.Examination = o.Examination, !.LabResults = o.LabResults,
              !.Treatment = o.Treatment, !.Recommendations = o.Recommendations]

DocumentInputs ==
    {WithCaptured([ZeroContent EXCEPT
                        !.PatientData = pd,
                        !.Anamnesis = [ChiefComplaint |-> cc],
                        !.Diagnosis = [PrimaryDiagnosis |-> [Code |-> code]]], o) :
        pd \in PatientDataInputs, cc \in {"", "cough"}, code \in {"", "J18.1"},
        o \in CapturedInputs}

(***************************************************************************)
(* State.                                                                  *)
(***************************************************************************)
VARIABLES
    reports,          \* table reports: id -> row
    report_versions,  \* table report_versions: report id -> rows, in insertion order
    nextID,           \* report ids handed out so far by uuid.New()
    clock,            \* what time.Now() returns
    started,          \* requests started so far
    pc,               \* per request handler: the statement it is about to run
    req,              \* per request handler: the operation and its arguments
    loaded,           \* per request handler: the report as GetByID returned it
    report,           \* per request handler: the *domain.Report it holds and changes
    versionNumber,    \* per request handler: the number computed for the new version
    result,           \* per request handler: what the operation returned
    versions,         \* per request handler: the versions GetReportVersions returned
    config,           \* fixed per behaviour: how fine the clock is, how many reports,
                      \* whether the store may fail an insert
    everLeftDraft,    \* history: ids of reports whose stored status has been non-draft
    saved             \* history: per stored report, the UpdateReportContent and
                      \* RestoreVersion calls on it that returned nil

vars == <<reports, report_versions, nextID, clock, started,
          pc, req, loaded, report, versionNumber, result, versions, config,
          everLeftDraft, saved>>

\* sql NULL for finalized_at / a nil *time.Time.
Null == 0

NoReport == [ID |-> 0, Status |-> StatusDraft, Content |-> ZeroContent,
             CreatedBy |-> "", LastModified |-> 0, FinalizedAt |-> Null]

NoRequest == [op |-> "none", id |-> 0, cnp |-> "", content |-> ZeroContent,
              newStatus |-> "", versionNumber |-> 0, userID |-> ""]

\* time.Now(): a reading of the wall clock, which then moves on.
After(t) == IF t < config.maxClock THEN t + 1 ELSE t
Now == clock
Tick == After(clock)

(***************************************************************************)
(* ReportRepository: the SQL statements, as functions of the two tables.   *)
(***************************************************************************)
NewReportVersion(number, content, userID, comment) ==
    [version_number |-> number, content |-> Marshal(content),
     saved_by |-> userID, comment |-> comment]

\* ORDER BY version_number DESC LIMIT 1 over the report's versions.
LatestVersion(id) ==
    LET vs == report_versions[id]
    IN  vs[CHOOSE i \in 1 .. Len(vs) :
                \A j \in 1 .. Len(vs) : vs[j].version_number <= vs[i].version_number]

\* GetByID: the row LEFT JOINed with the content of its newest version; a
\* report without versions keeps the zero ReportContent.
GetByID(id) ==
    [ID |-> id,
     Status |-> reports[id].status,
     Content |-> IF report_versions[id] = <<>> THEN ZeroContent
                 ELSE Unmarshal(LatestVersion(id).content),
     CreatedBy |-> reports[id].created_by,
     LastModified |-> reports[id].last_modified,
     FinalizedAt |-> reports[id].finalized_at]

Exists(id) == id \in DOMAIN reports

\* A well-formed id that no report has.
UnknownID == 0

\* Variant of the UPDATE without its WHERE clause: every row is written.
UpdateEveryRow(r) ==
    [id \in DOMAIN reports |-> [reports[id] EXCEPT !.status = r.Status,
                                                   !.last_modified = r.LastModified,
                                                   !.finalized_at = r.FinalizedAt]]

\* Update: UPDATE reports SET status, last_modified, finalized_at WHERE id;
\* no row matching is no error.
Update(r) ==
    IF Exists(r.ID)
    THEN [reports EXCEPT ![r.ID] = [@ EXCEPT !.status = r.Status,
                                             !.last_modified = r.LastModified,
                                             !.finalized_at = r.FinalizedAt]]
    ELSE reports

\* Delete: DELETE FROM reports WHERE id; report_versions rows go with it
\* (ON DELETE CASCADE).
DeleteRow(id) == [i \in DOMAIN reports \ {id} |-> reports[i]]
DeleteCascade(id) == [report_versions EXCEPT ![id] = <<>>]

\* Variant of GetVersions without the ORDER BY: the rows as they were
\* inserted.
GetVersionsAsInserted(id) == report_versions[id]

\* GetVersions: the report's versions, ORDER BY version_number DESC.
GetVersions(id) ==
    LET vs == report_versions[id]
    IN  [i \in 1 .. Len(vs) |->
            vs[CHOOSE j \in 1 .. Len(vs) :
                Cardinality({k \in 1 .. Len(vs) :
                                vs[k].version_number > vs[j].version_number}) = i - 1]]

\* Variant of the insert for a report_versions table without the
\* UNIQUE(report_id, version_number) constraint.
SaveVersionErrorNoUnique(id, v) ==
    IF id \notin DOMAIN reports THEN PqForeignKeyViolation ELSE NoError

\* Variant of the insert for a report_versions table whose report_id does
\* not reference reports.
SaveVersionErrorNoForeignKey(id, v) ==
    IF \E i \in 1 .. Len(report_versions[id]) :
            report_versions[id][i].version_number = v.version_number
    THEN PqUniqueViolation
    ELSE NoError

\* SaveVersion: INSERT INTO report_versions, subject to the foreign key on
\* report_id and to UNIQUE(report_id, version_number).
SaveVersionError(id, v) ==
    IF ~Exists(id) THEN PqForeignKeyViolation
    ELSE IF \E i \in 1 .. Len(report_versions[id]) :
                report_versions[id][i].version_number = v.version_number
    THEN PqUniqueViolation
    ELSE NoError

\* Variant of the insert that ends in ON CONFLICT (report_id, version_number)
\* DO UPDATE: a number already present has its row overwritten.
SaveVersionUpsert(id, v) ==
    IF ~Exists(id) THEN report_versions
    ELSE IF \E i \in 1 .. Len(report_versions[id]) :
                report_versions[id][i].version_number = v.version_number
    THEN [report_versions EXCEPT ![id] =
            [i \in 1 .. Len(@) |->
                IF @[i].version_number = v.version_number THEN v ELSE @[i]]]
    ELSE [report_versions EXCEPT ![id] = Append(@, v)]

SaveVersion(id, v) ==
    IF SaveVersionError(id, v) = NoError
    THEN [report_versions EXCEPT ![id] = Append(@, v)]
    ELSE report_versions

\* What db.ExecContext of the insert can return: the outcome the tables
\* determine and, where the store may fail, the error of a lost connection.
SaveVersionOutcomes(id, v) ==
    {SaveVersionError(id, v)} \cup (IF config.faults THEN {DriverBadConnection} ELSE {})

\* The insert with the given outcome: a lost connection leaves the table as
\* it was, otherwise the tables decide.
Inserted(id, v, err) ==
    IF err = SaveVersionError(id, v) THEN SaveVersion(id, v) ELSE report_versions

\* GetVersion: WHERE report_id = $1 AND version_number = $2.
HasVersion(id, k) ==
    \E i \in 1 .. Len(report_versions[id]) : report_versions[id][i].version_number = k

GetVersion(id, k) ==
    LET vs == report_versions[id]
    IN  vs[CHOOSE i \in 1 .. Len(vs) : vs[i].version_number = k]

(***************************************************************************)
(* Requests.  A handler that is idle, or has returned, may take the next   *)
(* request; the ids a client can name are those of reports created so far. *)
(***************************************************************************)
Idle(p) == pc[p] \in {"idle", "done"} /\ started < MaxOps

\* The ids a client can name: ListReports returns every row of reports, so
\* an id is known from the INSERT INTO reports on, before CreateReport has
\* returned it.
KnownIDs == 1 .. nextID

Load(p, got, copy) ==
    /\ loaded' = [loaded EXCEPT ![p] = got]
    /\ report' = [report EXCEPT ![p] = copy]

\* Variant of NewReport that stamps the new report as finalized.
NewReportStamped(id, doctorID) ==
    [ID |-> id, Status |-> StatusDraft, Content |-> ZeroContent,
     CreatedBy |-> doctorID, LastModified |-> Now, FinalizedAt |-> Now]

\* Variant of NewReport that starts the content from a filled-in document.
NewReportPrefilled(id, doctorID) ==
    [ID |-> id, Status |-> StatusDraft, Content |-> CompleteDoc,
     CreatedBy |-> doctorID, LastModified |-> Now, FinalizedAt |-> Null]

\* domain.NewReport: a draft with the zero content, created and modified now.
NewReport(id, doctorID) ==
    [ID |-> id, Status |-> StatusDraft, Content |-> ZeroContent,
     CreatedBy |-> doctorID, LastModified |-> Now, FinalizedAt |-> Null]

\* Variant of the draft check that only protects signed reports.
EditAllowedUnlessSigned(status) == status # StatusSigned

\* "Can only edit draft reports" / "Can only delete drafts".
EditAllowed(status) == status = StatusDraft

Accept(p, r) ==
    /\ started' = started + 1
    /\ req' = [req EXCEPT ![p] = r]
    /\ versionNumber' = [versionNumber EXCEPT ![p] = 0]

Return(p, err) ==
    /\ pc' = [pc EXCEPT ![p] = "done"]
    /\ result' = [result EXCEPT ![p] = err]

Goto(p, label) ==
    /\ pc' = [pc EXCEPT ![p] = label]
    /\ result' = [result EXCEPT ![p] = NoError]

\* What every step leaves of the past: the clock keeps its resolution, and a
\* report whose row now carries a status other than draft has left draft.
NonDraft(rows) == {id \in DOMAIN rows : rows[id].status # StatusDraft}

\* The handlers that return nil from a content save on the report in this
\* step.
SavesNow(id) ==
    {p \in Procs :
        /\ pc[p] \in {"UpdateReportContent_SaveVersion", "RestoreVersion_SaveVersion"}
        /\ pc'[p] = "done"
        /\ result'[p] = NoError
        /\ req[p].id = id}

History ==
    /\ config' = config
    /\ everLeftDraft' = everLeftDraft \cup NonDraft(reports')
    /\ saved' = [id \in ReportIDs |->
                    IF id \in DOMAIN reports'
                    THEN saved[id] + Cardinality(SavesNow(id))
                    ELSE 0]

\* The documented walk-through of the API (create, save a complete document,
\* send to review, approve): the store after its first n requests, each run
\* to completion before the next.  The clock has been read once per
\* timestamp.
At(n) == IF n < config.maxClock THEN n ELSE config.maxClock

WalkThroughRow(n) ==
    [status |-> CASE n <= 2 -> StatusDraft
                  [] n = 3 -> StatusInReview
                  [] OTHER -> StatusApproved,
     created_by |-> "doctor-1",
     last_modified |-> At(n),
     finalized_at |-> IF n = 4 THEN At(5) ELSE Null]

WalkThroughVersions(n) ==
    IF n = 1
    THEN <<NewReportVersion(1, ZeroContent, "doctor-1", <<"Initial version">>)>>
    ELSE <<NewReportVersion(1, ZeroContent, "doctor-1", <<"Initial version">>),
           NewReportVersion(2, CompleteDoc, "doctor-1", <<"Auto-save">>)>>

StartWith(cfg, stages) ==
    /\ config = cfg
    /\ \E n \in stages :
        /\ reports = IF n = 0 THEN <<>> ELSE 1 :> WalkThroughRow(n)
        /\ report_versions = [id \in ReportIDs |->
                                IF n > 0 /\ id = 1 THEN WalkThroughVersions(n) ELSE <<>>]
        /\ nextID = IF n = 0 THEN 0 ELSE 1
        /\ clock = IF n = 4 THEN At(6) ELSE At(n + 1)
        /\ saved = [id \in ReportIDs |-> IF n >= 2 /\ id = 1 THEN 1 ELSE 0]
    /\ started = 0
    /\ pc = [p \in Procs |-> "idle"]
    /\ req = [p \in Procs |-> NoRequest]
    /\ loaded = [p \in Procs |-> NoReport]
    /\ report = [p \in Procs |-> NoReport]
    /\ versionNumber = [p \in Procs |-> 0]
    /\ result = [p \in Procs |-> NoError]
    /\ versions = [p \in Procs |-> <<>>]
    /\ everLeftDraft = NonDraft(reports)

Start(resolution, limit, stages) ==
    StartWith([maxClock |-> resolution, maxReports |-> limit, faults |-> FALSE], stages)

Init == Start(MaxClock, MaxReports, 0 .. 4)

\* The same starts, with a clock fine enough to tell every reading of a
\* behaviour apart.
InitTimed == Start(TimedClock, MaxReports, 0 .. 4)

(***************************************************************************)
(* CreateReport                                                            *)
(***************************************************************************)
\* Variant of the first step whose CNP check refuses only a CNP that is too
\* short.
CreateReport_InsertAtLeast13(p) ==
    /\ Idle(p)
    /\ \E cnp \in CNPInputs, doctorID \in Users :
        /\ Accept(p, [NoRequest EXCEPT !.op = "CreateReport", !.cnp = cnp,
                                        !.userID = doctorID])
        /\ IF Len(cnp) < 13
           THEN /\ Return(p, ErrInvalidCNP)
                /\ Load(p, NoReport, NoReport)
                /\ UNCHANGED <<reports, report_versions, nextID, clock>>
           ELSE /\ nextID < config.maxReports
                /\ nextID' = nextID + 1
                /\ clock' = Tick
                /\ Load(p, NoReport, NewReport(nextID + 1, doctorID))
                /\ reports' = (nextID + 1 :> [status |-> StatusDraft,
                                              created_by |-> doctorID,
                                              last_modified |-> Now,
                                              finalized_at |-> Null]) @@ reports
                /\ Goto(p, "CreateReport_SaveVersion")
                /\ UNCHANGED report_versions
    /\ UNCHANGED versions
    /\ History

\* The CNP check, domain.NewReport and the INSERT INTO reports of Create.
CreateReport_Insert(p) ==
    /\ Idle(p)
    /\ \E cnp \in CNPInputs, doctorID \in Users :
        /\ Accept(p, [NoRequest EXCEPT !.op = "CreateReport", !.cnp = cnp,
                                        !.userID = doctorID])
        /\ IF Len(cnp) # 13
           THEN /\ Return(p, ErrInvalidCNP)
                /\ Load(p, NoReport, NoReport)
                /\ UNCHANGED <<reports, report_versions, nextID, clock>>
           ELSE /\ nextID < config.maxReports
                /\ nextID' = nextID + 1
                /\ clock' = Tick
                /\ Load(p, NoReport, NewReport(nextID + 1, doctorID))
                /\ reports' = (nextID + 1 :> [status |-> StatusDraft,
                                              created_by |-> doctorID,
                                              last_modified |-> Now,
                                              finalized_at |-> Null]) @@ reports
                /\ Goto(p, "CreateReport_SaveVersion")
                /\ UNCHANGED report_versions
    /\ UNCHANGED versions
    /\ History

\* Variant of the initial insert that numbers the first version 0.
CreateReport_SaveVersionFromZero(p) ==
    /\ pc[p] = "CreateReport_SaveVersion"
    /\ LET v == NewReportVersion(0, report[p].Content, report[p].CreatedBy,
                                 <<"Initial version">>)
       IN  \E err \in SaveVersionOutcomes(report[p].ID, v) :
            /\ report_versions' = Inserted(report[p].ID, v, err)
            /\ Return(p, err)
    /\ UNCHANGED <<reports, nextID, clock, started, req, loaded, report, versionNumber>>
    /\ UNCHANGED versions
    /\ History

\* The INSERT of version 1 that ends Create.
CreateReport_SaveVersion(p) ==
    /\ pc[p] = "CreateReport_SaveVersion"
    /\ LET v == NewReportVersion(1, report[p].Content, report[p].CreatedBy,
                                 <<"Initial version">>)
       IN  \E err \in SaveVersionOutcomes(report[p].ID, v) :
            /\ report_versions' = Inserted(report[p].ID, v, err)
            /\ Return(p, err)
    /\ UNCHANGED <<reports, nextID, clock, started, req, loaded, report, versionNumber>>
    /\ UNCHANGED versions
    /\ History

(***************************************************************************)
(* UpdateReportContent                                                     *)
(***************************************************************************)
\* Variant of the first step that refuses a document that is not complete.
UpdateReportContent_GetByIDGated(p) ==
    /\ Idle(p)
    /\ \E id \in KnownIDs, content \in ContentInputs, userID \in Users :
        /\ Accept(p, [NoRequest EXCEPT !.op = "UpdateReportContent", !.id = id,
                                        !.content = content, !.userID = userID])
        /\ IF ~Exists(id)
           THEN /\ Return(p, ErrReportNotFound)
                /\ Load(p, NoReport, NoReport)
                /\ UNCHANGED clock
           ELSE IF ~EditAllowed(GetByID(id).Status)
           THEN /\ Return(p, ErrCannotEditNonDraft)
                /\ Load(p, GetByID(id), GetByID(id))
                /\ UNCHANGED clock
           ELSE IF ~IsComplete(content)
           THEN /\ Return(p, ErrIncompleteReport)
                /\ Load(p, GetByID(id), GetByID(id))
                /\ UNCHANGED clock
           ELSE /\ Goto(p, "UpdateReportContent_Update")
                /\ Load(p, GetByID(id), [GetByID(id) EXCEPT !.Content = content,
                                                             !.LastModified = Now])
                /\ clock' = Tick
    /\ UNCHANGED <<reports, report_versions, nextID>>
    /\ UNCHANGED versions
    /\ History

\* GetByID, the draft check, and the changes to the private copy.
UpdateReportContent_GetByID(p) ==
    /\ Idle(p)
    /\ \E id \in KnownIDs, content \in ContentInputs, userID \in Users :
        /\ Accept(p, [NoRequest EXCEPT !.op = "UpdateReportContent", !.id = id,
                                        !.content = content, !.userID = userID])
        /\ IF ~Exists(id)
           THEN /\ Return(p, ErrReportNotFound)
                /\ Load(p, NoReport, NoReport)
                /\ UNCHANGED clock
           ELSE IF ~EditAllowed(GetByID(id).Status)
           THEN /\ Return(p, ErrCannotEditNonDraft)
                /\ Load(p, GetByID(id), GetByID(id))
                /\ UNCHANGED clock
           ELSE /\ Goto(p, "UpdateReportContent_Update")
                /\ Load(p, GetByID(id), [GetByID(id) EXCEPT !.Content = content,
                                                             !.LastModified = Now])
                /\ clock' = Tick
    /\ UNCHANGED <<reports, report_versions, nextID>>
    /\ UNCHANGED versions
    /\ History

\* reportRepo.Update(report)
UpdateReportContent_Update(p) ==
    /\ pc[p] = "UpdateReportContent_Update"
    /\ reports' = Update(report[p])
    /\ Goto(p, "UpdateReportContent_GetVersions")
    /\ UNCHANGED <<report_versions, nextID, clock, started, req, loaded, report, versionNumber>>
    /\ UNCHANGED versions
    /\ History

\* reportRepo.GetVersions and versionNumber := len(versions) + 1
UpdateReportContent_GetVersions(p) ==
    /\ pc[p] = "UpdateReportContent_GetVersions"
    /\ versionNumber' = [versionNumber EXCEPT ![p] = Len(GetVersions(req[p].id)) + 1]
    /\ Goto(p, "UpdateReportContent_SaveVersion")
    /\ UNCHANGED <<reports, report_versions, nextID, clock, started, req, loaded, report>>
    /\ UNCHANGED versions
    /\ History

\* reportRepo.SaveVersion(NewReportVersion(..., "Auto-save"))
UpdateReportContent_SaveVersion(p) ==
    /\ pc[p] = "UpdateReportContent_SaveVersion"
    /\ LET v == NewReportVersion(versionNumber[p], req[p].content, req[p].userID,
                                 <<"Auto-save">>)
       IN  \E err \in SaveVersionOutcomes(req[p].id, v) :
            /\ report_versions' = Inserted(req[p].id, v, err)
            /\ Return(p, err)
    /\ UNCHANGED <<reports, nextID, clock, started, req, loaded, report, versionNumber>>
    /\ UNCHANGED versions
    /\ History

(***************************************************************************)
(* UpdateReportStatus                                                      *)
(***************************************************************************)
\* Variant of WithNewStatus that stamps finalizedAt on signing only.
WithNewStatusSignedOnly(r, newStatus) ==
    [r EXCEPT !.Status = newStatus,
              !.LastModified = Now,
              !.FinalizedAt = IF newStatus = StatusSigned THEN Tick ELSE @]

\* The status and the timestamps UpdateReportStatus puts into its copy; the
\* two time.Now() calls are two readings of the clock.
WithNewStatus(r, newStatus) ==
    [r EXCEPT !.Status = newStatus,
              !.LastModified = Now,
              !.FinalizedAt = IF newStatus = StatusApproved \/ newStatus = StatusSigned
                              THEN Tick ELSE @]

\* Variant of the first step that asks for a complete document whatever the
\* target, and before it looks at the transition.
UpdateReportStatus_GetByIDGateAll(p) ==
    /\ Idle(p)
    /\ \E id \in KnownIDs, newStatus \in Statuses :
        /\ Accept(p, [NoRequest EXCEPT !.op = "UpdateReportStatus", !.id = id,
                                        !.newStatus = newStatus])
        /\ IF ~Exists(id)
           THEN /\ Return(p, ErrReportNotFound)
                /\ Load(p, NoReport, NoReport)
                /\ UNCHANGED clock
           ELSE IF ~IsComplete(GetByID(id).Content)
           THEN /\ Return(p, ErrIncompleteReport)
                /\ Load(p, GetByID(id), GetByID(id))
                /\ UNCHANGED clock
           ELSE IF ~CanTransitionTo(GetByID(id).Status, newStatus)
           THEN /\ Return(p, ErrInvalidStatusTransition)
                /\ Load(p, GetByID(id), GetByID(id))
                /\ UNCHANGED clock
           ELSE /\ Goto(p, "UpdateReportStatus_Update")
                /\ Load(p, GetByID(id), WithNewStatus(GetByID(id), newStatus))
                /\ clock' = IF newStatus = StatusApproved \/ newStatus = StatusSigned
                            THEN After(Tick) ELSE Tick
    /\ UNCHANGED <<reports, report_versions, nextID>>
    /\ UNCHANGED versions
    /\ History

\* GetByID, the transition check, the completeness check, the changes to
\* the private copy.
UpdateReportStatus_GetByID(p) ==
    /\ Idle(p)
    /\ \E id \in KnownIDs, newStatus \in Statuses :
        /\ Accept(p, [NoRequest EXCEPT !.op = "UpdateReportStatus", !.id = id,
                                        !.newStatus = newStatus])
        /\ IF ~Exists(id)
           THEN /\ Return(p, ErrReportNotFound)
                /\ Load(p, NoReport, NoReport)
                /\ UNCHANGED clock
           ELSE IF ~CanTransitionTo(GetByID(id).Status, newStatus)
           THEN /\ Return(p, ErrInvalidStatusTransition)
                /\ Load(p, GetByID(id), GetByID(id))
                /\ UNCHANGED clock
           ELSE IF newStatus = StatusInReview /\ ~IsComplete(GetByID(id).Content)
           THEN /\ Return(p, ErrIncompleteReport)
                /\ Load(p, GetByID(id), GetByID(id))
                /\ UNCHANGED clock
           ELSE /\ Goto(p, "UpdateReportStatus_Update")
                /\ Load(p, GetByID(id), WithNewStatus(GetByID(id), newStatus))
                /\ clock' = IF newStatus = StatusApproved \/ newStatus = StatusSigned
                            THEN After(Tick) ELSE Tick
    /\ UNCHANGED <<reports, report_versions, nextID>>
    /\ UNCHANGED versions
    /\ History

\* Variant of the write that also saves the content it read as a new
\* version.
UpdateReportStatus_UpdateAndSave(p) ==
    /\ pc[p] = "UpdateReportStatus_Update"
    /\ reports' = Update(report[p])
    /\ report_versions' =
        SaveVersion(req[p].id,
                    NewReportVersion(Len(GetVersions(req[p].id)) + 1, report[p].Content,
                                     report[p].CreatedBy, <<"Status change">>))
    /\ Return(p, NoError)
    /\ UNCHANGED <<nextID, clock, started, req, loaded, report, versionNumber>>
    /\ UNCHANGED versions
    /\ History

\* reportRepo.Update(report)
UpdateReportStatus_Update(p) ==
    /\ pc[p] = "UpdateReportStatus_Update"
    /\ reports' = Update(report[p])
    /\ Return(p, NoError)
    /\ UNCHANGED <<report_versions, nextID, clock, started, req, loaded, report, versionNumber>>
    /\ UNCHANGED versions
    /\ History

(***************************************************************************)
(* DeleteReport                                                            *)
(***************************************************************************)
\* Variant of the first step without the draft check.
DeleteReport_GetByIDAnyStatus(p) ==
    /\ Idle(p)
    /\ \E id \in KnownIDs :
        /\ Accept(p, [NoRequest EXCEPT !.op = "DeleteReport", !.id = id])
        /\ IF ~Exists(id)
           THEN /\ Return(p, ErrReportNotFound)
                /\ Load(p, NoReport, NoReport)
           ELSE /\ Goto(p, "DeleteReport_Delete")
                /\ Load(p, GetByID(id), GetByID(id))
    /\ UNCHANGED <<reports, report_versions, nextID, clock>>
    /\ UNCHANGED versions
    /\ History

\* Variant of the first step that removes the report before it looks at
\* the status.
DeleteReport_GetByIDDeleteFirst(p) ==
    /\ Idle(p)
    /\ \E id \in KnownIDs :
        /\ Accept(p, [NoRequest EXCEPT !.op = "DeleteReport", !.id = id])
        /\ IF ~Exists(id)
           THEN /\ Return(p, ErrReportNotFound)
                /\ Load(p, NoReport, NoReport)
                /\ UNCHANGED <<reports, report_versions>>
           ELSE IF ~EditAllowed(GetByID(id).Status)
           THEN /\ Return(p, ErrCannotEditNonDraft)
                /\ Load(p, GetByID(id), GetByID(id))
                /\ reports' = DeleteRow(id)
                /\ report_versions' = DeleteCascade(id)
           ELSE /\ Goto(p, "DeleteReport_Delete")
                /\ Load(p, GetByID(id), GetByID(id))
                /\ UNCHANGED <<reports, report_versions>>
    /\ UNCHANGED <<nextID, clock>>
    /\ UNCHANGED versions
    /\ History

\* GetByID and the draft check.
DeleteReport_GetByID(p) ==
    /\ Idle(p)
    /\ \E id \in KnownIDs :
        /\ Accept(p, [NoRequest EXCEPT !.op = "DeleteReport", !.id = id])
        /\ IF ~Exists(id)
           THEN /\ Return(p, ErrReportNotFound)
                /\ Load(p, NoReport, NoReport)
           ELSE IF ~EditAllowed(GetByID(id).Status)
           THEN /\ Return(p, ErrCannotEditNonDraft)
                /\ Load(p, GetByID(id), GetByID(id))
           ELSE /\ Goto(p, "DeleteReport_Delete")
                /\ Load(p, GetByID(id), GetByID(id))
    /\ UNCHANGED <<reports, report_versions, nextID, clock>>
    /\ UNCHANGED versions
    /\ History

\* reportRepo.Delete(reportID)
DeleteReport_Delete(p) ==
    /\ pc[p] = "DeleteReport_Delete"
    /\ reports' = DeleteRow(req[p].id)
    /\ report_versions' = DeleteCascade(req[p].id)
    /\ Return(p, NoError)
    /\ UNCHANGED <<nextID, clock, started, req, loaded, report, versionNumber>>
    /\ UNCHANGED versions
    /\ History

(***************************************************************************)
(* RestoreVersion                                                          *)
(***************************************************************************)
RestoreVersion_GetByID(p) ==
    /\ Idle(p)
    /\ \E id \in KnownIDs, userID \in Users :
       \E k \in 0 .. Len(report_versions[id]) + 1 :
        /\ Accept(p, [NoRequest EXCEPT !.op = "RestoreVersion", !.id = id,
                                        !.versionNumber = k, !.userID = userID])
        /\ IF ~Exists(id)
           THEN /\ Return(p, ErrReportNotFound)
                /\ Load(p, NoReport, NoReport)
           ELSE IF ~EditAllowed(GetByID(id).Status)
           THEN /\ Return(p, ErrCannotEditNonDraft)
                /\ Load(p, GetByID(id), GetByID(id))
           ELSE /\ Goto(p, "RestoreVersion_GetVersion")
                /\ Load(p, GetByID(id), GetByID(id))
    /\ UNCHANGED <<reports, report_versions, nextID, clock>>
    /\ UNCHANGED versions
    /\ History

\* Variant of the second step that reports a missing version as a failed
\* query.
RestoreVersion_GetVersionQueryError(p) ==
    /\ pc[p] = "RestoreVersion_GetVersion"
    /\ IF ~HasVersion(req[p].id, req[p].versionNumber)
       THEN /\ Return(p, ErrDatabaseQuery)
            /\ UNCHANGED <<loaded, report, clock>>
       ELSE /\ Goto(p, "RestoreVersion_Update")
            /\ UNCHANGED loaded
            /\ report' = [report EXCEPT ![p] =
                            [@ EXCEPT !.Content =
                                        Unmarshal(GetVersion(req[p].id,
                                                             req[p].versionNumber).content),
                                      !.LastModified = Now]]
            /\ clock' = Tick
    /\ UNCHANGED <<reports, report_versions, nextID, started, req, versionNumber>>
    /\ UNCHANGED versions
    /\ History

\* reportRepo.GetVersion, and the changes to the private copy.
RestoreVersion_GetVersion(p) ==
    /\ pc[p] = "RestoreVersion_GetVersion"
    /\ IF ~HasVersion(req[p].id, req[p].versionNumber)
       THEN /\ Return(p, ErrReportNotFound)
            /\ UNCHANGED <<loaded, report, clock>>
       ELSE /\ Goto(p, "RestoreVersion_Update")
            /\ UNCHANGED loaded
            /\ report' = [report EXCEPT ![p] =
                            [@ EXCEPT !.Content =
                                        Unmarshal(GetVersion(req[p].id,
                                                             req[p].versionNumber).content),
                                      !.LastModified = Now]]
            /\ clock' = Tick
    /\ UNCHANGED <<reports, report_versions, nextID, started, req, versionNumber>>
    /\ UNCHANGED versions
    /\ History

\* reportRepo.Update(report)
RestoreVersion_Update(p) ==
    /\ pc[p] = "RestoreVersion_Update"
    /\ reports' = Update(report[p])
    /\ Goto(p, "RestoreVersion_GetVersions")
    /\ UNCHANGED <<report_versions, nextID, clock, started, req, loaded, report, versionNumber>>
    /\ UNCHANGED versions
    /\ History

\* reportRepo.GetVersions and newVersionNumber := len(versions) + 1
RestoreVersion_GetVersions(p) ==
    /\ pc[p] = "RestoreVersion_GetVersions"
    /\ versionNumber' = [versionNumber EXCEPT ![p] = Len(GetVersions(req[p].id)) + 1]
    /\ Goto(p, "RestoreVersion_SaveVersion")
    /\ UNCHANGED <<reports, report_versions, nextID, clock, started, req, loaded, report>>
    /\ UNCHANGED versions
    /\ History

\* Variant of the last step that saves the content the report had when it
\* was loaded, not the content of the version read.
RestoreVersion_SaveVersionCurrent(p) ==
    /\ pc[p] = "RestoreVersion_SaveVersion"
    /\ LET v == NewReportVersion(versionNumber[p], loaded[p].Content, req[p].userID,
                                 <<"Restored from version ", req[p].versionNumber>>)
       IN  \E err \in SaveVersionOutcomes(req[p].id, v) :
            /\ report_versions' = Inserted(req[p].id, v, err)
            /\ Return(p, err)
    /\ UNCHANGED <<reports, nextID, clock, started, req, loaded, report, versionNumber>>
    /\ UNCHANGED versions
    /\ History

\* reportRepo.SaveVersion(NewReportVersion(..., version.Content, ...,
\* "Restored from version "+string(rune(versionNumber))))
RestoreVersion_SaveVersion(p) ==
    /\ pc[p] = "RestoreVersion_SaveVersion"
    /\ LET v == NewReportVersion(versionNumber[p], report[p].Content, req[p].userID,
                                 <<"Restored from version ", req[p].versionNumber>>)
       IN  \E err \in SaveVersionOutcomes(req[p].id, v) :
            /\ report_versions' = Inserted(req[p].id, v, err)
            /\ Return(p, err)
    /\ UNCHANGED <<reports, nextID, clock, started, req, loaded, report, versionNumber>>
    /\ UNCHANGED versions
    /\ History

Next ==
    \E p \in Procs :
        \/ CreateReport_Insert(p)
        \/ CreateReport_SaveVersion(p)
        \/ UpdateReportContent_GetByID(p)
        \/ UpdateReportContent_Update(p)
        \/ UpdateReportContent_GetVersions(p)
        \/ UpdateReportContent_SaveVersion(p)
        \/ UpdateReportStatus_GetByID(p)
        \/ UpdateReportStatus_Update(p)
        \/ DeleteReport_GetByID(p)
        \/ DeleteReport_Delete(p)
        \/ RestoreVersion_GetByID(p)
        \/ RestoreVersion_GetVersion(p)
        \/ RestoreVersion_Update(p)
        \/ RestoreVersion_GetVersions(p)
        \/ RestoreVersion_SaveVersion(p)

Spec == Init /\ [][Next]_vars

SpecTimed == InitTimed /\ [][Next]_vars

\* The same requests on a store that may fail an insert into
\* report_versions.
InitFaults ==
    StartWith([maxClock |-> MaxClock, maxReports |-> MaxReports, faults |-> TRUE], {0, 2})

SpecFaults == InitFaults /\ [][Next]_vars

\* The requests on a store that has a draft and room for a second report.
InitTwo == Start(MaxClock, TwoReports, {1, 2})

SpecTwo == InitTwo /\ [][Next]_vars

(***************************************************************************)
(* GetReport and GetReportVersions, among the other requests.              *)
(***************************************************************************)
\* reportRepo.GetByID(id)
GetReport(p) ==
    /\ Idle(p)
    /\ \E id \in KnownIDs \cup {UnknownID} :
        /\ Accept(p, [NoRequest EXCEPT !.op = "GetReport", !.id = id])
        /\ IF ~Exists(id)
           THEN /\ Return(p, ErrReportNotFound)
                /\ Load(p, NoReport, NoReport)
           ELSE /\ Return(p, NoError)
                /\ Load(p, GetByID(id), GetByID(id))
    /\ UNCHANGED <<reports, report_versions, nextID, clock, versions>>
    /\ History

\* Variant of the first step that does not look the report up.
GetReportVersions_Unverified(p) ==
    /\ Idle(p)
    /\ \E id \in KnownIDs \cup {UnknownID} :
        /\ Accept(p, [NoRequest EXCEPT !.op = "GetReportVersions", !.id = id])
        /\ Goto(p, "GetReportVersions_GetVersions")
        /\ Load(p, NoReport, NoReport)
    /\ versions' = [versions EXCEPT ![p] = <<>>]
    /\ UNCHANGED <<reports, report_versions, nextID, clock>>
    /\ History

\* "Verify report exists": reportRepo.GetByID(reportID)
GetReportVersions_GetByID(p) ==
    /\ Idle(p)
    /\ \E id \in KnownIDs \cup {UnknownID} :
        /\ Accept(p, [NoRequest EXCEPT !.op = "GetReportVersions", !.id = id])
        /\ IF ~Exists(id)
           THEN /\ Return(p, ErrReportNotFound)
                /\ Load(p, NoReport, NoReport)
           ELSE /\ Goto(p, "GetReportVersions_GetVersions")
                /\ Load(p, GetByID(id), GetByID(id))
    /\ versions' = [versions EXCEPT ![p] = <<>>]
    /\ UNCHANGED <<reports, report_versions, nextID, clock>>
    /\ History

\* return s.reportRepo.GetVersions(ctx, reportID)
GetReportVersions_GetVersions(p) ==
    /\ pc[p] = "GetReportVersions_GetVersions"
    /\ versions' = [versions EXCEPT ![p] = GetVersions(req[p].id)]
    /\ Return(p, NoError)
    /\ UNCHANGED <<reports, report_versions, nextID, clock, started, req, loaded,
                   report, versionNumber>>
    /\ History

NextReads ==
    \E p \in Procs :
        \/ CreateReport_Insert(p)
        \/ CreateReport_SaveVersion(p)
        \/ UpdateReportContent_GetByID(p)
        \/ UpdateReportContent_Update(p)
        \/ UpdateReportContent_GetVersions(p)
        \/ UpdateReportContent_SaveVersion(p)
        \/ UpdateReportStatus_GetByID(p)
        \/ UpdateReportStatus_Update(p)
        \/ DeleteReport_GetByID(p)
        \/ DeleteReport_Delete(p)
        \/ RestoreVersion_GetByID(p)
        \/ RestoreVersion_GetVersion(p)
        \/ RestoreVersion_Update(p)
        \/ RestoreVersion_GetVersions(p)
        \/ RestoreVersion_SaveVersion(p)
        \/ GetReport(p)
        \/ GetReportVersions_GetByID(p)
        \/ GetReportVersions_GetVersions(p)

\* The reads are followed from the empty store and from the saved draft.
InitReads == Start(MaxClock, MaxReports, {0, 2})

SpecReads == InitReads /\ [][NextReads]_vars

(***************************************************************************)
(* ReportContent.IsComplete on its own: every handler holds a document,    *)
(* and asks for its completeness as UpdateReportStatus does.               *)
(***************************************************************************)
InitIsComplete ==
    /\ config = [maxClock |-> MaxClock, maxReports |-> MaxReports, faults |-> FALSE]
    /\ reports = <<>>
    /\ report_versions = [id \in ReportIDs |-> <<>>]
    /\ nextID = 0
    /\ clock = 1
    /\ started = 0
    /\ pc = [p \in Procs |-> "idle"]
    /\ \E c \in DocumentInputs :
        req = [p \in Procs |-> [NoRequest EXCEPT !.op = "IsComplete", !.content = c]]
    /\ loaded = [p \in Procs |-> NoReport]
    /\ report = [p \in Procs |-> NoReport]
    /\ versionNumber = [p \in Procs |-> 0]
    /\ result = [p \in Procs |-> NoError]
    /\ versions = [p \in Procs |-> <<>>]
    /\ everLeftDraft = {}
    /\ saved = [id \in ReportIDs |-> 0]

\* if !report.Content.IsComplete() { return domain.ErrIncompleteReport }
IsComplete_Check(p) ==
    /\ pc[p] = "idle"
    /\ req[p].op = "IsComplete"
    /\ Return(p, IF IsComplete(req[p].content) THEN NoError ELSE ErrIncompleteReport)
    /\ UNCHANGED <<reports, report_versions, nextID, clock, started, req, loaded,
                   report, versionNumber>>
    /\ UNCHANGED versions
    /\ History

NextIsComplete == \E p \in Procs : IsComplete_Check(p)

SpecIsComplete == InitIsComplete /\ [][NextIsComplete]_vars

(***************************************************************************)
(* Vocabulary of the properties.                                           *)
(***************************************************************************)
\* The error taxonomy, as far as the code has an error for it.
NotFound == ErrReportNotFound
EditNotAllowed == ErrCannotEditNonDraft
InvalidTransition == ErrInvalidStatusTransition
IncompleteContent == ErrIncompleteReport
InvalidPatientId == ErrInvalidCNP
\* The code defines no error for an optimistic-lock mismatch.
ConcurrencyConflict == "concurrency conflict"

VersionNumbers(id) ==
    {report_versions[id][i].version_number : i \in 1 .. Len(report_versions[id])}

\* A handler that has returned from the named operation on a report it found.
Returned(p, op) == pc[p] = "done" /\ req[p].op = op /\ loaded[p].ID # 0

\* The transition table of the workflow, as pairs.
TableEdges ==
    {<<StatusDraft, StatusInReview>>, <<StatusDraft, StatusCancelled>>,
     <<StatusInReview, StatusDraft>>, <<StatusInReview, StatusApproved>>,
     <<StatusInReview, StatusCancelled>>,
     <<StatusApproved, StatusSigned>>, <<StatusApproved, StatusDraft>>}

\* An entry of a ledger is among the entries of another, with its number,
\* content and author.
Kept(entry, ledger) ==
    \E j \in 1 .. Len(ledger) :
        /\ ledger[j].version_number = entry.version_number
        /\ ledger[j].content = entry.content
        /\ ledger[j].saved_by = entry.saved_by

\* The step is the one in which handler p takes a request: no other handler
\* moves.
Takes(p) ==
    /\ started' = started + 1
    /\ \A q \in Procs \ {p} :
        pc'[q] = pc[q] /\ req'[q] = req[q] /\ result'[q] = result[q]

\* The report a handler's request is about: the one it creates, or the one
\* it names.
Target(p) == IF req[p].op = "CreateReport" THEN report[p].ID ELSE req[p].id

Untouched(id) ==
    /\ Exists(id) <=> Exists(id)'
    /\ Exists(id) => reports'[id] = reports[id]
    /\ report_versions'[id] = report_versions[id]

\* The operations that name a report.
OnReport ==
    {"GetReport", "GetReportVersions", "UpdateReportContent", "UpdateReportStatus",
     "DeleteReport", "RestoreVersion"}

ReadOnly == {"GetReport", "GetReportVersions"}

\* The step is the DELETE of a DeleteReport.
DeleteStep == \E p \in Procs : pc[p] = "DeleteReport_Delete" /\ pc'[p] = "done"

\* The five mandatory rules of completeness.
MandatoryFieldsPresent(c) ==
    /\ c.PatientData.FirstName # ""
    /\ c.PatientData.LastName # ""
    /\ Len(c.PatientData.CNP) = 13
    /\ c.PatientData.DischargeDate >= c.PatientData.AdmissionDate
    /\ c.Anamnesis.ChiefComplaint # ""
    /\ c.Diagnosis.PrimaryDiagnosis.Code # ""

(***************************************************************************)
(* C1: in every reachable state the version numbers of every report's      *)
(* ledger are exactly 1..N, N the number of its entries: the numbering     *)
(* starts at 1 and has no gap.                                             *)
(***************************************************************************)
C1_NumbersAreOneToN ==
    \A id \in ReportIDs : VersionNumbers(id) = 1 .. Len(report_versions[id])

\* An updateContent and a restoreVersion have both appended after create.
C1_Witness ==
    \E p, q \in Procs :
        /\ Returned(p, "UpdateReportContent") /\ result[p] = NoError
        /\ Returned(q, "RestoreVersion") /\ result[q] = NoError
        /\ req[p].id = req[q].id
        /\ Len(report_versions[req[p].id]) >= 3

(***************************************************************************)
(* C2: no two ledger entries of one report ever carry the same version     *)
(* number, although every writer computes count + 1 in a step of its own.  *)
(***************************************************************************)
C2_NoDuplicateNumber ==
    \A id \in ReportIDs :
        \A i, j \in 1 .. Len(report_versions[id]) :
            i # j => report_versions[id][i].version_number
                        # report_versions[id][j].version_number

\* Two writers computed the same number; one insert was refused.
C2_Witness ==
    \E p, q \in Procs :
        /\ p # q
        /\ pc[p] = "done" /\ pc[q] = "done"
        /\ req[p].id = req[q].id
        /\ versionNumber[p] > 0
        /\ versionNumber[p] = versionNumber[q]
        /\ result[p] = NoError
        /\ result[q] = PqUniqueViolation

(***************************************************************************)
(* C3: two updateContent calls on the same draft either both succeed with  *)
(* consecutive numbers, the higher being the current content, or exactly   *)
(* one fails, and then with ConcurrencyConflict.                           *)
(***************************************************************************)
C3_TwoUpdatesOutcome ==
    \A p, q \in Procs :
        ( /\ p # q
          /\ Returned(p, "UpdateReportContent") /\ Returned(q, "UpdateReportContent")
          /\ req[p].id = req[q].id
          /\ loaded[p].Status = StatusDraft /\ loaded[q].Status = StatusDraft
          /\ versionNumber[p] <= versionNumber[q] )
        => \/ /\ result[p] = NoError /\ result[q] = NoError
              /\ versionNumber[q] = versionNumber[p] + 1
              /\ Exists(req[q].id)
              /\ GetByID(req[q].id).Content = req[q].content
           \/ /\ result[p] = NoError /\ result[q] = ConcurrencyConflict
           \/ /\ result[q] = NoError /\ result[p] = ConcurrencyConflict

(***************************************************************************)
(* C4: when the stored status or finalizedAt changed between an            *)
(* updateContent's read and its write of the report row, the write leaves  *)
(* them as they are, or the call fails with ConcurrencyConflict.           *)
(***************************************************************************)
C4_UpdateContentKeepsStatus ==
    [][\A p \in Procs :
        ( /\ pc[p] = "UpdateReportContent_Update"
          /\ pc'[p] # pc[p]
          /\ Exists(req[p].id)
          /\ \/ reports[req[p].id].status # loaded[p].Status
             \/ reports[req[p].id].finalized_at # loaded[p].FinalizedAt )
        => \/ /\ Exists(req[p].id)'
              /\ reports'[req[p].id].status = reports[req[p].id].status
              /\ reports'[req[p].id].finalized_at = reports[req[p].id].finalized_at
           \/ result'[p] = ConcurrencyConflict]_vars

(***************************************************************************)
(* C5: changeStatus succeeds only along an edge of the transition table;   *)
(* for every other pair of states, self-transitions included, it fails     *)
(* with InvalidTransition.                                                 *)
(***************************************************************************)
C5_OnlyTableEdges ==
    \A p \in Procs :
        Returned(p, "UpdateReportStatus") =>
            LET edge == <<loaded[p].Status, req[p].newStatus>>
            IN  /\ result[p] = NoError => edge \in TableEdges
                /\ edge \notin TableEdges => result[p] = InvalidTransition

\* A transition to the state the report is in was refused.
C5_Witness ==
    \E p \in Procs :
        /\ Returned(p, "UpdateReportStatus")
        /\ loaded[p].Status = req[p].newStatus
        /\ result[p] = InvalidTransition

(***************************************************************************)
(* C6: once the stored status is Signed or Cancelled, the report keeps     *)
(* that status in every later state.                                       *)
(***************************************************************************)
C6_TerminalStatusStays ==
    [][\A id \in DOMAIN reports :
        reports[id].status \in {StatusSigned, StatusCancelled}
        => /\ id \in DOMAIN reports'
           /\ reports'[id].status = reports[id].status]_vars

(***************************************************************************)
(* C7: updateContent and restoreVersion fail with EditNotAllowed whenever  *)
(* the status they read is not Draft, and pass the status check only when  *)
(* it is Draft.                                                            *)
(***************************************************************************)
C7_OnlyDraftPassesCheck ==
    \A p \in Procs :
        (req[p].op \in {"UpdateReportContent", "RestoreVersion"} /\ loaded[p].ID # 0)
        => IF loaded[p].Status = StatusDraft
           THEN result[p] # EditNotAllowed
           ELSE pc[p] = "done" /\ result[p] = EditNotAllowed

\* A restoreVersion on an approved report was refused.
C7_Witness ==
    \E p \in Procs :
        /\ Returned(p, "RestoreVersion")
        /\ loaded[p].Status = StatusApproved
        /\ result[p] = EditNotAllowed

(***************************************************************************)
(* C8: no version is appended to a report's ledger at a moment when the    *)
(* report's stored status is not Draft.                                    *)
(***************************************************************************)
C8_AppendOnlyToDraft ==
    [][\A id \in ReportIDs :
        Len(report_versions'[id]) > Len(report_versions[id])
        => id \in DOMAIN reports /\ reports[id].status = StatusDraft]_vars

(***************************************************************************)
(* C9: changeStatus(InReview) on a report read as Draft fails with         *)
(* IncompleteContent exactly when the content read is not complete;        *)
(* otherwise it succeeds, its write makes the stored status InReview and   *)
(* leaves the ledger, and so the current content, unchanged.               *)
(***************************************************************************)
C9_ReviewGate ==
    [][\A p \in Procs :
        ( /\ Returned(p, "UpdateReportStatus")'
          /\ req'[p].newStatus = StatusInReview
          /\ loaded'[p].Status = StatusDraft )
        => /\ result'[p] = IncompleteContent
                <=> ~MandatoryFieldsPresent(loaded'[p].Content)
           /\ result'[p] # IncompleteContent => result'[p] = NoError
           /\ pc[p] = "UpdateReportStatus_Update"
                => /\ report_versions' = report_versions
                   /\ Exists(req[p].id) =>
                        /\ reports'[req[p].id].status = StatusInReview
                        /\ GetByID(req[p].id)'.Content = GetByID(req[p].id).Content]_vars

\* A complete draft was sent to review.
C9_Witness ==
    \E p \in Procs :
        /\ Returned(p, "UpdateReportStatus")
        /\ req[p].newStatus = StatusInReview
        /\ loaded[p].Status = StatusDraft
        /\ MandatoryFieldsPresent(loaded[p].Content)
        /\ result[p] = NoError
        /\ Exists(req[p].id)
        /\ reports[req[p].id].status = StatusInReview

(***************************************************************************)
(* C10, as claimed: finalizedAt is set if and only if the status is        *)
(* Approved or Signed.                                                     *)
(***************************************************************************)
C10_FinalizedIffApprovedOrSigned ==
    \A id \in DOMAIN reports :
        reports[id].finalized_at # Null
            <=> reports[id].status \in {StatusApproved, StatusSigned}

(***************************************************************************)
(* C10, amended: a report whose status is Approved or Signed has its       *)
(* finalizedAt set.  (The converse fails: finalizedAt stays set when an    *)
(* approved report goes back to Draft.)                                    *)
(***************************************************************************)
C10_ApprovedOrSignedIsFinalized ==
    \A id \in DOMAIN reports :
        reports[id].status \in {StatusApproved, StatusSigned}
            => reports[id].finalized_at # Null

\* A changeStatus made a report under review Approved.
C10_Witness ==
    \E p \in Procs :
        /\ Returned(p, "UpdateReportStatus")
        /\ req[p].newStatus = StatusApproved
        /\ loaded[p].Status = StatusInReview
        /\ result[p] = NoError
        /\ Exists(req[p].id)
        /\ reports[req[p].id].status = StatusApproved
        /\ reports[req[p].id].finalized_at # Null

(***************************************************************************)
(* C11: a successful changeStatus to Approved or Signed on a report whose  *)
(* finalizedAt already has a value leaves that value unchanged.            *)
(***************************************************************************)
C11_FinalizedAtKeptWhenSet ==
    [][\A p \in Procs :
        ( /\ pc[p] = "UpdateReportStatus_Update"
          /\ pc'[p] = "done" /\ result'[p] = NoError
          /\ req[p].newStatus \in {StatusApproved, StatusSigned}
          /\ Exists(req[p].id)
          /\ loaded[p].FinalizedAt # Null
          /\ reports[req[p].id].finalized_at = loaded[p].FinalizedAt )
        => reports'[req[p].id].finalized_at = loaded[p].FinalizedAt]_vars

(***************************************************************************)
(* C12: once a report's stored finalizedAt is set, every later write of    *)
(* the row leaves it set, with a value not earlier than before.            *)
(***************************************************************************)
C12_FinalizedAtMonotonic ==
    [][\A id \in DOMAIN reports :
        (reports[id].finalized_at # Null /\ id \in DOMAIN reports')
        => /\ reports'[id].finalized_at # Null
           /\ reports'[id].finalized_at >= reports[id].finalized_at]_vars

(***************************************************************************)
(* C13: the insert that completes a successful restoreVersion(report, k)   *)
(* leaves every entry the ledger had, makes the ledger one entry longer,   *)
(* and the new entry has the highest number and exactly the stored content *)
(* of version k.                                                           *)
(***************************************************************************)
C13_RestoreAppendsCopyOfK ==
    [][\A p \in Procs :
        ( /\ pc[p] = "RestoreVersion_SaveVersion"
          /\ pc'[p] = "done" /\ result'[p] = NoError )
        => LET old == report_versions[req[p].id]
               new == report_versions'[req[p].id]
           IN  /\ Len(new) = Len(old) + 1
               /\ \A i \in 1 .. Len(old) : new[i] = old[i]
               /\ \A i \in 1 .. Len(old) :
                    new[Len(new)].version_number > old[i].version_number
               /\ HasVersion(req[p].id, req[p].versionNumber)
               /\ new[Len(new)].content
                    = GetVersion(req[p].id, req[p].versionNumber).content]_vars

\* Version 1 of a report whose current content was another was restored as
\* version 3.
C13_Witness ==
    \E p \in Procs :
        /\ Returned(p, "RestoreVersion") /\ result[p] = NoError
        /\ req[p].versionNumber = 1
        /\ versionNumber[p] = 3
        /\ Len(report_versions[req[p].id]) = 3
        /\ report_versions[req[p].id][3].content = report_versions[req[p].id][1].content
        /\ report_versions[req[p].id][3].content # report_versions[req[p].id][2].content

(***************************************************************************)
(* C14: the ledger is append-only.  In every step of a create,             *)
(* updateContent, restoreVersion or changeStatus, every entry of every     *)
(* ledger is still there afterwards with the same version number, content  *)
(* and author.                                                             *)
(***************************************************************************)
C14_LedgerAppendOnly ==
    [][~DeleteStep =>
        \A id \in ReportIDs :
            \A i \in 1 .. Len(report_versions[id]) :
                Kept(report_versions[id][i], report_versions'[id])]_vars

\* A writer was refused the number another writer had taken for a different
\* content, and that entry stands as written.
C14_Witness ==
    \E p, q \in Procs :
        /\ p # q
        /\ Returned(p, "UpdateReportContent") /\ result[p] = NoError
        /\ Returned(q, "UpdateReportContent") /\ result[q] = PqUniqueViolation
        /\ req[p].id = req[q].id
        /\ versionNumber[p] = versionNumber[q]
        /\ req[p].content # req[q].content
        /\ Kept(NewReportVersion(versionNumber[p], req[p].content, req[p].userID,
                                 <<"Auto-save">>),
                report_versions[req[p].id])

(***************************************************************************)
(* C15: audit completeness.  A report whose status has ever been other     *)
(* than Draft is never destroyed: it and all its ledger entries exist in   *)
(* every later state.                                                      *)
(***************************************************************************)
C15_NeverDestroyedAfterLeavingDraft ==
    [][\A id \in everLeftDraft :
        Exists(id) =>
            /\ Exists(id)'
            /\ \A i \in 1 .. Len(report_versions[id]) :
                    Kept(report_versions[id][i], report_versions'[id])]_vars

(***************************************************************************)
(* C16: delete fails with EditNotAllowed whenever the status it read is    *)
(* InReview, Approved, Signed or Cancelled, and such a call removes        *)
(* nothing: a report or ledger entry disappears only in the DELETE of a    *)
(* delete that read the report as Draft, and that DELETE removes the        *)
(* report.                                                                 *)
(***************************************************************************)
C16_DeleteOnlyDraft ==
    [][/\ \A p \in Procs :
            (req'[p].op = "DeleteReport" /\ loaded'[p].ID # 0
                /\ loaded'[p].Status # StatusDraft)
            => /\ pc'[p] = "done"
               /\ result'[p] = EditNotAllowed
               /\ pc[p] # "DeleteReport_Delete"
       /\ \A id \in ReportIDs :
            ( \/ Exists(id) /\ ~Exists(id)'
              \/ Len(report_versions'[id]) < Len(report_versions[id]) )
            => \E p \in Procs :
                /\ pc[p] = "DeleteReport_Delete" /\ pc'[p] = "done"
                /\ req[p].id = id
                /\ loaded[p].Status = StatusDraft
       /\ \A p \in Procs :
            (pc[p] = "DeleteReport_Delete" /\ pc'[p] = "done")
            => ~Exists(req[p].id)' /\ result'[p] = NoError]_vars

\* A delete of an approved report was refused and the report is still
\* there with its ledger.
C16_Witness ==
    \E p \in Procs :
        /\ Returned(p, "DeleteReport")
        /\ loaded[p].Status = StatusApproved
        /\ result[p] = EditNotAllowed
        /\ Exists(req[p].id)
        /\ Len(report_versions[req[p].id]) = 2

(***************************************************************************)
(* C17: a content mutation is atomic.  When an updateContent or            *)
(* restoreVersion that has written the report row returns, with success    *)
(* or with an error, its new version has been appended.  (A handler at its *)
(* insert has run its UPDATE; the UPDATE wrote the row if the row is still *)
(* there, as no id is used twice.)                                         *)
(***************************************************************************)
C17_RowUpdateComesWithVersion ==
    [][\A p \in Procs :
        ( /\ pc[p] \in {"UpdateReportContent_SaveVersion", "RestoreVersion_SaveVersion"}
          /\ pc'[p] = "done"
          /\ Exists(req[p].id) )
        => Len(report_versions'[req[p].id]) = Len(report_versions[req[p].id]) + 1]_vars

(***************************************************************************)
(* C18: in every reachable state, every stored report has exactly one      *)
(* ledger entry with the highest version number, and the content getReport *)
(* returns for the report is the content of that entry.                    *)
(***************************************************************************)
C18_ContentIsHighestEntry ==
    \A id \in DOMAIN reports :
        \E i \in 1 .. Len(report_versions[id]) :
            /\ \A j \in 1 .. Len(report_versions[id]) :
                j # i => report_versions[id][j].version_number
                            < report_versions[id][i].version_number
            /\ GetByID(id).Content = Unmarshal(report_versions[id][i].content)

(***************************************************************************)
(* C19: a successful create with a 13-character national id yields a       *)
(* report that is Draft, with finalizedAt unset and the empty content      *)
(* document, and a ledger of exactly one entry, numbered 1, with empty     *)
(* content and the creating clinician as author.  The row is stored as a   *)
(* draft without finalizedAt by the first step of create; when create      *)
(* returns success the report it returns is that draft, its last step has  *)
(* left the row alone, and the ledger is the one entry.                    *)
(***************************************************************************)
C19_CreateYieldsEmptyDraft ==
    [][\A p \in Procs :
        /\ (pc'[p] = "CreateReport_SaveVersion" /\ pc[p] # pc'[p])
            => LET id == report'[p].ID
               IN  /\ Len(req'[p].cnp) = 13
                   /\ id \notin DOMAIN reports /\ id \in DOMAIN reports'
                   /\ reports'[id].status = StatusDraft
                   /\ reports'[id].finalized_at = Null
                   /\ reports'[id].created_by = req'[p].userID
        /\ ( /\ pc[p] = "CreateReport_SaveVersion"
              /\ pc'[p] = "done" /\ result'[p] = NoError )
            => LET id == report[p].ID
                   ledger == report_versions'[id]
               IN  /\ Len(req[p].cnp) = 13
                   /\ report[p].Status = StatusDraft
                   /\ report[p].FinalizedAt = Null
                   /\ report[p].Content = ZeroContent
                   /\ Exists(id)'
                   /\ reports'[id] = reports[id]
                   /\ GetByID(id)'.Content = ZeroContent
                   /\ Len(ledger) = 1
                   /\ ledger[1].version_number = 1
                   /\ ledger[1].content = Marshal(ZeroContent)
                   /\ ledger[1].saved_by = req[p].userID]_vars

\* A create has returned its report, and no other request has touched it.
C19_Witness ==
    \E p \in Procs :
        /\ pc[p] = "done" /\ req[p].op = "CreateReport" /\ result[p] = NoError
        /\ req[p].cnp = ValidCNP
        /\ Exists(report[p].ID)
        /\ reports[report[p].ID].status = StatusDraft
        /\ Len(report_versions[report[p].ID]) = 1
        /\ \A q \in Procs \ {p} : pc[q] = "idle"

(***************************************************************************)
(* C20: create fails with InvalidPatientId whenever the national id is not *)
(* exactly 13 characters long, shorter, longer or empty, and the call      *)
(* persists no report and no version.                                      *)
(***************************************************************************)
C20_CreateRefusesBadLength ==
    [][\A p \in Procs :
        (req'[p].op = "CreateReport" /\ Len(req'[p].cnp) # 13)
        => /\ pc'[p] = "done"
           /\ result'[p] = InvalidPatientId
           /\ report'[p].ID = 0
           /\ Takes(p) => /\ reports' = reports
                          /\ report_versions' = report_versions
                          /\ nextID' = nextID]_vars

\* A create with the empty national id and one with a 14-character id were
\* refused, and the store is still empty.
C20_Witness ==
    \E p, q \in Procs :
        /\ pc[p] = "done" /\ req[p].op = "CreateReport" /\ req[p].cnp = ""
        /\ result[p] = InvalidPatientId
        /\ pc[q] = "done" /\ req[q].op = "CreateReport" /\ Len(req[q].cnp) = 14
        /\ result[q] = InvalidPatientId
        /\ DOMAIN reports = {}
        /\ \A id \in ReportIDs : report_versions[id] = <<>>

(***************************************************************************)
(* C21: a status change never creates a version.  Every step of a          *)
(* changeStatus call, successful or failed, leaves every ledger, and so    *)
(* the current content of every report, as it was.                         *)
(***************************************************************************)
C21_StatusChangeKeepsLedger ==
    [][\A p \in Procs :
        ( \/ Takes(p) /\ req'[p].op = "UpdateReportStatus"
          \/ pc[p] = "UpdateReportStatus_Update" /\ pc'[p] = "done" )
        => /\ report_versions' = report_versions
           /\ \A id \in DOMAIN reports :
                /\ Exists(id)'
                /\ GetByID(id)'.Content = GetByID(id).Content]_vars

\* One changeStatus has succeeded and one was refused, and the ledger has
\* the two entries it had.
C21_Witness ==
    \E p, q \in Procs :
        /\ Returned(p, "UpdateReportStatus") /\ result[p] = NoError
        /\ Returned(q, "UpdateReportStatus") /\ result[q] = InvalidTransition
        /\ req[p].id = req[q].id
        /\ Exists(req[p].id)
        /\ reports[req[p].id].status = req[p].newStatus
        /\ report_versions[req[p].id] = WalkThroughVersions(2)

(***************************************************************************)
(* C22: completeness is not checked on save.  An updateContent that read   *)
(* the report as Draft is never refused for its content, complete or not:  *)
(* it goes on to its insert, which appends a version with exactly that     *)
(* content unless the store refuses the row (another writer has taken the  *)
(* number, or the report has been deleted).                                *)
(***************************************************************************)
C22_SaveIsNotGated ==
    \A p \in Procs :
        ( /\ req[p].op = "UpdateReportContent"
          /\ loaded[p].ID # 0
          /\ loaded[p].Status = StatusDraft )
        => /\ result[p] \in {NoError, PqUniqueViolation, PqForeignKeyViolation}
           /\ (pc[p] = "done" /\ result[p] = NoError /\ Exists(req[p].id))
                => Kept(NewReportVersion(versionNumber[p], req[p].content,
                                         req[p].userID, <<"Auto-save">>),
                        report_versions[req[p].id])
           /\ (pc[p] = "done" /\ result[p] = PqUniqueViolation)
                => ~Exists(req[p].id) \/ HasVersion(req[p].id, versionNumber[p])
           /\ (pc[p] = "done" /\ result[p] = PqForeignKeyViolation)
                => ~Exists(req[p].id)

\* A document without chief complaint was saved to a draft as version 2.
C22_Witness ==
    \E p \in Procs :
        /\ Returned(p, "UpdateReportContent") /\ result[p] = NoError
        /\ loaded[p].Status = StatusDraft
        /\ ~MandatoryFieldsPresent(req[p].content)
        /\ versionNumber[p] = 2
        /\ Exists(req[p].id)
        /\ Len(report_versions[req[p].id]) = 2
        /\ report_versions[req[p].id][2].content = Marshal(req[p].content)

(***************************************************************************)
(* C23: isComplete(content) is true exactly when the five mandatory rules  *)
(* hold (first and last name non-empty, national id of length 13,          *)
(* discharge not before admission, chief complaint non-empty, primary      *)
(* diagnosis code non-empty), and the examination, lab-results, treatment  *)
(* and recommendations sections never change the result.                   *)
(***************************************************************************)
C23_IsCompleteIsTheFiveRules ==
    \A p \in Procs :
        (pc[p] = "done" /\ req[p].op = "IsComplete")
        => /\ result[p] = NoError <=> MandatoryFieldsPresent(req[p].content)
           /\ \A o \in CapturedInputs :
                IsComplete(WithCaptured(req[p].content, o)) <=> result[p] = NoError

\* A document that breaks only the rule of the dates, all its other
\* sections filled in, was found incomplete.
C23_Witness ==
    \E p \in Procs :
        /\ pc[p] = "done" /\ req[p].op = "IsComplete"
        /\ result[p] = ErrIncompleteReport
        /\ req[p].content.PatientData.DischargeDate
                < req[p].content.PatientData.AdmissionDate
        /\ MandatoryFieldsPresent(
                [req[p].content EXCEPT !.PatientData.DischargeDate =
                                            req[p].content.PatientData.AdmissionDate])
        /\ req[p].content.Examination.GeneralCondition # ""
        /\ req[p].content.Treatment.Medications # <<>>

(***************************************************************************)
(* C24: completeness gates only Draft -> InReview.  changeStatus returns   *)
(* IncompleteContent only for the target InReview, on a draft whose        *)
(* content is not complete; along every other edge of the table it         *)
(* succeeds whatever the content; and a request that is not an edge fails  *)
(* with InvalidTransition, also when the content is not complete.          *)
(***************************************************************************)
C24_OnlyReviewIsGated ==
    \A p \in Procs :
        Returned(p, "UpdateReportStatus") =>
            LET edge == <<loaded[p].Status, req[p].newStatus>>
            IN  /\ result[p] = IncompleteContent
                    => /\ edge = <<StatusDraft, StatusInReview>>
                       /\ ~MandatoryFieldsPresent(loaded[p].Content)
                /\ (edge \in TableEdges /\ req[p].newStatus # StatusInReview)
                    => result[p] = NoError
                /\ edge \notin TableEdges => result[p] = InvalidTransition

\* With content that is not complete, a draft was cancelled, and its
\* approval was refused as no edge of the table.
C24_Witness ==
    \E p, q \in Procs :
        /\ Returned(p, "UpdateReportStatus") /\ Returned(q, "UpdateReportStatus")
        /\ ~MandatoryFieldsPresent(loaded[p].Content)
        /\ loaded[p].Status = StatusDraft /\ req[p].newStatus = StatusCancelled
        /\ result[p] = NoError
        /\ ~MandatoryFieldsPresent(loaded[q].Content)
        /\ loaded[q].Status = StatusDraft /\ req[q].newStatus = StatusApproved
        /\ result[q] = InvalidTransition

(***************************************************************************)
(* C25: in every reachable state, under any interleaving, a report whose   *)
(* status is InReview, Approved or Signed has complete current content.    *)
(***************************************************************************)
C25_FinalizingNeedsCompleteContent ==
    \A id \in DOMAIN reports :
        reports[id].status \in {StatusInReview, StatusApproved, StatusSigned}
            => MandatoryFieldsPresent(GetByID(id).Content)

(***************************************************************************)
(* C26: a restoreVersion(report, k) that read the report as Draft fails    *)
(* with NotFound when the ledger has no entry numbered k (k below 1 or     *)
(* above the count), and leaves the report row and the ledger unchanged.   *)
(***************************************************************************)
C26_RestoreOfMissingVersion ==
    [][\A p \in Procs :
        ( /\ pc[p] = "RestoreVersion_GetVersion"
          /\ pc'[p] # pc[p]
          /\ loaded[p].Status = StatusDraft
          /\ ~\E i \in 1 .. Len(report_versions[req[p].id]) :
                report_versions[req[p].id][i].version_number = req[p].versionNumber )
        => /\ pc'[p] = "done"
           /\ result'[p] = NotFound
           /\ reports' = reports
           /\ report_versions' = report_versions]_vars

\* Restoring version 0 and restoring version 3 of a draft with two versions
\* were both refused.
C26_Witness ==
    \E p, q \in Procs :
        /\ Returned(p, "RestoreVersion") /\ Returned(q, "RestoreVersion")
        /\ req[p].id = req[q].id
        /\ loaded[p].Status = StatusDraft /\ loaded[q].Status = StatusDraft
        /\ req[p].versionNumber = 0 /\ req[q].versionNumber = 3
        /\ result[p] = NotFound /\ result[q] = NotFound
        /\ Exists(req[p].id)
        /\ report_versions[req[p].id] = WalkThroughVersions(2)

(***************************************************************************)
(* C27: listVersions returns every ledger entry of the report, and only    *)
(* those, in strictly decreasing order of version number, so that its      *)
(* first element carries the report's current content.                     *)
(***************************************************************************)
C27_VersionsNewestFirst ==
    [][\A p \in Procs :
        (pc[p] = "GetReportVersions_GetVersions" /\ pc'[p] = "done")
        => LET got == versions'[p]
               ledger == report_versions[req[p].id]
           IN  /\ result'[p] = NoError
               /\ Len(got) = Len(ledger)
               /\ \A i \in 1 .. Len(ledger) : \E j \in 1 .. Len(got) : got[j] = ledger[i]
               /\ \A j \in 1 .. Len(got) : \E i \in 1 .. Len(ledger) : got[j] = ledger[i]
               /\ \A j \in 1 .. Len(got) - 1 :
                    got[j].version_number > got[j + 1].version_number
               /\ (Exists(req[p].id) /\ got # <<>>)
                    => Unmarshal(got[1].content) = GetByID(req[p].id).Content]_vars

\* The three versions of a report were returned as 3, 2, 1.
C27_Witness ==
    \E p \in Procs :
        /\ Returned(p, "GetReportVersions") /\ result[p] = NoError
        /\ Len(versions[p]) = 3
        /\ versions[p][1].version_number = 3
        /\ versions[p][2].version_number = 2
        /\ versions[p][3].version_number = 1
        /\ report_versions[req[p].id][1].version_number = 1

(***************************************************************************)
(* C28: getReport and listVersions change nothing, and an operation on an  *)
(* id that no report has, the id of a deleted report included, fails with  *)
(* NotFound: the reads, and after a delete every mutating operation too.   *)
(***************************************************************************)
C28_NotFoundAndReadOnly ==
    [][\A p \in Procs :
        /\ (req'[p].op \in OnReport /\ loaded'[p].ID = 0)
            => pc'[p] = "done" /\ result'[p] = NotFound
        /\ ( /\ Takes(p)
             /\ <<pc[p], req[p], loaded[p], result[p]>>'
                    # <<pc[p], req[p], loaded[p], result[p]>>
             /\ req'[p].op \in OnReport
             /\ ~Exists(req'[p].id) )
            => /\ loaded'[p].ID = 0
               /\ reports' = reports
               /\ report_versions' = report_versions
        /\ ( \/ Takes(p) /\ req'[p].op \in ReadOnly
             \/ pc[p] = "GetReportVersions_GetVersions" /\ pc'[p] # pc[p] )
            => /\ reports' = reports
               /\ report_versions' = report_versions]_vars

\* After a delete had succeeded, listVersions on the same id was refused.
C28_Witness ==
    \E p, q \in Procs :
        /\ Returned(p, "DeleteReport") /\ result[p] = NoError
        /\ pc[q] = "done" /\ req[q].op = "GetReportVersions"
        /\ req[q].id = req[p].id
        /\ result[q] = NotFound
        /\ ~Exists(req[q].id)

(***************************************************************************)
(* C29: every operation either succeeds or returns an error of the         *)
(* taxonomy; a store write that failed or conflicted is returned as        *)
(* ConcurrencyConflict or StoreUnavailable.                                *)
(***************************************************************************)
StoreUnavailable == ErrDatabaseQuery

Taxonomy ==
    {NotFound, InvalidPatientId, EditNotAllowed, InvalidTransition, IncompleteContent,
     ConcurrencyConflict, StoreUnavailable}

C29_ErrorsAreOfTheTaxonomy ==
    \A p \in Procs :
        pc[p] = "done" => result[p] = NoError \/ result[p] \in Taxonomy

(***************************************************************************)
(* C30: no operation spans two reports.  Every step of an operation a      *)
(* handler runs on one report, in any interleaving, leaves the row and the *)
(* ledger of every other report unchanged.                                 *)
(***************************************************************************)
C30_OtherReportsUntouched ==
    [][\A p \in Procs :
        (pc'[p] # pc[p] \/ Takes(p))
        => \A id \in ReportIDs \ {Target(p)'} : Untouched(id)]_vars

\* The second report was created and its status changed while the first
\* stayed the draft it was.
C30_Witness ==
    \E p, q \in Procs :
        /\ pc[q] = "done" /\ req[q].op = "CreateReport" /\ result[q] = NoError
        /\ report[q].ID = 2
        /\ Returned(p, "UpdateReportStatus") /\ result[p] = NoError
        /\ req[p].id = 2 /\ req[p].newStatus = StatusCancelled
        /\ Exists(1) /\ Exists(2)
        /\ reports[2].status = StatusCancelled
        /\ reports[1].status = StatusDraft
        /\ report_versions[1] = WalkThroughVersions(2)
        /\ Len(report_versions[2]) = 1

(***************************************************************************)
(* C31: for every existing report, the number of ledger entries is 1 plus  *)
(* the number of updateContent and restoreVersion calls on it that         *)
(* returned success; a failed call contributes no entry.  Stated for the   *)
(* reports whose create has returned.                                      *)
(***************************************************************************)
C31_EntriesCountSuccessfulSaves ==
    \A id \in DOMAIN reports :
        (\A p \in Procs : ~(pc[p] = "CreateReport_SaveVersion" /\ report[p].ID = id))
        => Len(report_versions[id]) = 1 + saved[id]

(***************************************************************************)
(* C32: the workflow Draft -> In Review -> Approved -> Signed is           *)
(* achievable.  Run one after the other, create, updateContent with a      *)
(* complete document, changeStatus to InReview, to Approved and to Signed  *)
(* each return success, each leaves the store as the next request of the   *)
(* sequence finds it, and the last leaves the report Signed with           *)
(* finalizedAt set.  (started = 1: the request is the only one since the   *)
(* store was as the previous request of the sequence left it.)             *)
(***************************************************************************)
C32_WorkflowStepsSucceed ==
    \A p \in Procs :
        (started = 1 /\ pc[p] = "done") =>
            /\ (req[p].op = "CreateReport" /\ Len(req[p].cnp) = 13)
                => /\ result[p] = NoError
                   /\ Exists(report[p].ID)
                   /\ reports[report[p].ID] =
                        [WalkThroughRow(1) EXCEPT !.last_modified = report[p].LastModified]
                   /\ report_versions[report[p].ID] = WalkThroughVersions(1)
                   /\ report[p].ID = 1 => reports = 1 :> WalkThroughRow(1)
            /\ ( /\ req[p].op = "UpdateReportContent" /\ req[p].content = CompleteDoc
                 /\ loaded[p].Status = StatusDraft /\ loaded[p].Content = ZeroContent )
                => /\ result[p] = NoError
                   /\ reports = 1 :> WalkThroughRow(2)
                   /\ report_versions[1] = WalkThroughVersions(2)
            /\ ( /\ req[p].op = "UpdateReportStatus" /\ req[p].newStatus = StatusInReview
                 /\ loaded[p].Status = StatusDraft /\ loaded[p].Content # ZeroContent )
                => /\ result[p] = NoError
                   /\ reports = 1 :> WalkThroughRow(3)
                   /\ report_versions[1] = WalkThroughVersions(3)
            /\ ( /\ req[p].op = "UpdateReportStatus" /\ req[p].newStatus = StatusApproved
                 /\ loaded[p].Status = StatusInReview )
                => /\ result[p] = NoError
                   /\ reports = 1 :> WalkThroughRow(4)
                   /\ report_versions[1] = WalkThroughVersions(4)
            /\ ( /\ req[p].op = "UpdateReportStatus" /\ req[p].newStatus = StatusSigned
                 /\ loaded[p].Status = StatusApproved )
                => /\ result[p] = NoError
                   /\ reports[1].status = StatusSigned
                   /\ reports[1].finalized_at # Null
                   /\ report_versions[1] = WalkThroughVersions(4)

\* The approved report of the sequence has been signed.
C32_Witness ==
    \E p \in Procs :
        /\ started = 1
        /\ Returned(p, "UpdateReportStatus")
        /\ req[p].newStatus = StatusSigned
        /\ loaded[p].Status = StatusApproved
        /\ IsComplete(loaded[p].Content)
        /\ result[p] = NoError
        /\ reports[1].status = StatusSigned
        /\ reports[1].finalized_at # Null
        /\ Len(report_versions[1]) = 2

(***************************************************************************)
(* C33: a rejected request changes nothing.  An updateContent,             *)
(* restoreVersion, changeStatus or delete that returns NotFound,           *)
(* EditNotAllowed, InvalidTransition or IncompleteContent has written      *)
(* neither the report row (status, lastModified, finalizedAt) nor the      *)
(* ledger: the step in which it returns the error leaves both tables as    *)
(* they were, and so does the one step that can come before it, the read   *)
(* that opens a restoreVersion.                                            *)
(***************************************************************************)
Rejections == {NotFound, EditNotAllowed, InvalidTransition, IncompleteContent}

Mutations ==
    {"UpdateReportContent", "RestoreVersion", "UpdateReportStatus", "DeleteReport"}

C33_RejectedCallChangesNothing ==
    [][\A p \in Procs :
        /\ ( /\ pc'[p] # pc[p] \/ Takes(p)
             /\ pc'[p] = "done"
             /\ req'[p].op \in Mutations
             /\ result'[p] \in Rejections )
            => reports' = reports /\ report_versions' = report_versions
        /\ (pc'[p] # pc[p] /\ pc'[p] = "RestoreVersion_GetVersion")
            => reports' = reports /\ report_versions' = report_versions]_vars

\* A request to send an approved report back to review was refused, and
\* the report is as the approval left it.
C33_Witness ==
    \E p \in Procs :
        /\ started = 1
        /\ Returned(p, "UpdateReportStatus")
        /\ req[p].newStatus = StatusInReview
        /\ result[p] = InvalidTransition
        /\ reports = 1 :> WalkThroughRow(4)
        /\ report_versions[1] = WalkThroughVersions(4)

(***************************************************************************)
(* C34: under any interleaving of changeStatus, updateContent and          *)
(* restoreVersion calls, every change of a report's stored status from one *)
(* value to a different one is an edge of the transition table.            *)
(***************************************************************************)
C34_StoredStatusMovesAlongEdges ==
    [][\A id \in DOMAIN reports \cap DOMAIN reports' :
        reports'[id].status # reports[id].status
        => <<reports[id].status, reports'[id].status>> \in TableEdges]_vars

(***************************************************************************)
(* C35: under any interleaving of delete with changeStatus, a report is    *)
(* never removed at a moment when its stored status is not Draft.          *)
(***************************************************************************)
C35_RemovedOnlyWhileDraft ==
    [][\A id \in DOMAIN reports :
        id \notin DOMAIN reports' => reports[id].status = StatusDraft]_vars

(***************************************************************************)
(* C36: every report that is in the store after its create has returned,   *)
(* with success or with an error, has at least one ledger entry; a create  *)
(* whose insert of version 1 fails leaves no report row behind.            *)
(***************************************************************************)
C36_NoRowWithoutVersionAfterCreate ==
    \A id \in DOMAIN reports :
        (\A p \in Procs : ~(pc[p] = "CreateReport_SaveVersion" /\ report[p].ID = id))
        => report_versions[id] # <<>>

(***************************************************************************)
(* C37: no orphan ledger entries.  In every reachable state every ledger   *)
(* entry belongs to a report that exists, and an updateContent or          *)
(* restoreVersion whose report has been deleted under it adds no entry and *)
(* does not return success.                                                *)
(***************************************************************************)
NoOrphans == \A id \in ReportIDs : report_versions[id] # <<>> => Exists(id)

SaveOnDeletedFails ==
    \A p \in Procs :
        ( /\ pc[p] \in {"UpdateReportContent_SaveVersion", "RestoreVersion_SaveVersion"}
          /\ pc'[p] = "done"
          /\ ~Exists(req[p].id) )
        => /\ result'[p] # NoError
           /\ report_versions' = report_versions

C37_NoOrphanVersions == [][NoOrphans /\ NoOrphans' /\ SaveOnDeletedFails]_vars

\* An updateContent lost its report to a delete and failed on the foreign
\* key; nothing of the report is left.
C37_Witness ==
    \E p, q \in Procs :
        /\ Returned(p, "UpdateReportContent")
        /\ result[p] = PqForeignKeyViolation
        /\ Returned(q, "DeleteReport")
        /\ result[q] = NoError
        /\ req[p].id = req[q].id
        /\ ~Exists(req[p].id)
        /\ report_versions[req[p].id] = <<>>

(***************************************************************************)
(* C38: a report's stored lastModified never decreases, in any sequence or *)
(* interleaving of updateContent, restoreVersion and changeStatus calls.   *)
(***************************************************************************)
C38_LastModifiedNeverDecreases ==
    [][\A id \in DOMAIN reports \cap DOMAIN reports' :
        reports'[id].last_modified >= reports[id].last_modified]_vars

(***************************************************************************)
(* C39: a freshly created report is never complete.  The report create     *)
(* builds and returns has the empty content document, which is not         *)
(* complete; a changeStatus to InReview that reads a draft with the empty  *)
(* document fails with IncompleteContent, and a changeStatus to Cancelled  *)
(* that reads it passes the checks and returns success.                    *)
(***************************************************************************)
C39_FreshReportIsIncomplete ==
    /\ \A id \in ReportIDs, doctorID \in Users :
            /\ NewReport(id, doctorID).Content = ZeroContent
            /\ ~IsComplete(NewReport(id, doctorID).Content)
    /\ \A p \in Procs :
        /\ (req[p].op = "CreateReport" /\ report[p].ID # 0)
            => ~IsComplete(report[p].Content)
        /\ ( /\ req[p].op = "UpdateReportStatus" /\ loaded[p].ID # 0
             /\ loaded[p].Status = StatusDraft
             /\ loaded[p].Content = ZeroContent )
            => /\ req[p].newStatus = StatusInReview
                    => pc[p] = "done" /\ result[p] = IncompleteContent
               /\ req[p].newStatus = StatusCancelled
                    => /\ pc[p] \in {"UpdateReportStatus_Update", "done"}
                       /\ result[p] = NoError

\* A fresh report was refused for review and then cancelled.
C39_Witness ==
    \E p, q \in Procs :
        /\ Returned(p, "UpdateReportStatus") /\ Returned(q, "UpdateReportStatus")
        /\ loaded[p].Status = StatusDraft /\ loaded[p].Content = ZeroContent
        /\ req[p].newStatus = StatusInReview
        /\ result[p] = IncompleteContent
        /\ loaded[q].Status = StatusDraft /\ loaded[q].Content = ZeroContent
        /\ req[q].newStatus = StatusCancelled
        /\ result[q] = NoError
        /\ reports[1].status = StatusCancelled
        /\ report_versions[1] = WalkThroughVersions(1)
====
